---- MODULE Spec2Model ----
(***************************************************************************)
(* The one-hot sweep of the notebook "Computing gradients and derivatives  *)
(* in PyTorch": for every coordinate of the output tensor y, a seed v that *)
(* is zero except for a 1. at that coordinate is passed to                 *)
(* y.backward(v, retain_graph=True), and the gradient accumulated in       *)
(* x.grad is stored as that coordinate's slice of the result.              *)
(*                                                                         *)
(* The notebook writes the sweep once as a loop, for a matrix-valued output *)
(* of a scalar input (for i, j in the itertools.product of the ranges), and *)
(* unrolled by hand for vector-valued outputs of scalar and vector inputs  *)
(* (v1, v2).  The model is the loop with the coordinate kept as a tuple of *)
(* any length up to Axes and the gradient kept whole, which covers both.   *)
(*                                                                         *)
(* The cells that write two calls out by hand, the cells that             *)
(* differentiate at several points with one call (torch.ones_like, sum),   *)
(* and the cells of the notebooks about pathlib's Path and the attributes  *)
(* that importing fastai adds to it are modelled as further actions, each  *)
(* under a specification of its own.                                       *)
(*                                                                         *)
(* Tensors are records [shape, vals]: shape is the sequence of extents,    *)
(* vals maps every coordinate tuple to its value.  Floating-point values   *)
(* are modelled by integers (1. is 1, 0. is 0).                            *)
(***************************************************************************)
EXTENDS Integers, Sequences, FiniteSets, TLC

VARIABLES
    yShape,       \* y.shape, the shape of the output
    xShape,       \* x.shape, the shape of the input
    J,            \* the mapping's Jacobian at x: J[c][d] = d y[c] / d x[d]
    fault,        \* how and at which call the oracle misbehaves, if at all
    pc,           \* position of the cell's control
    pos,          \* index of the loop's current coordinate in the product
    v,            \* the seed of the current iteration
    xgrad,        \* x.grad, the gradient accumulator (None before the first call)
    graph,        \* the computation graph retained by the engine, or released
    derivatives,  \* the result being assembled
    calls,        \* the seeds passed to backward so far, in order
    failedAt,     \* index in calls of the call that failed, 0 if none
    err,          \* the error that ended the sweep, NoError if none
    returned,     \* the result handed back, None until the sweep completes
    todo,         \* the coordinates the loop visits, in order
    mode,         \* "jacobian": all coordinates; "rows": a list the caller chose;
                  \* "cells": the two calls written out by hand; "ones", "sum":
                  \* the single call of the cells for several points
    inflight,     \* number of backward calls issued and not yet completed
    answers,      \* the value of x.grad at the return of each call
    objs,         \* the seed tensors built in this sweep: objs[r] is the value
                  \* held now by the r-th tensor object
    vRef,         \* the object v is bound to, 0 if none of this sweep
    callRefs,     \* the object passed to each backward call
    evals,        \* number of evaluations of the mapping (y = f(x))
    sweep,        \* number of the current run of the sweep
    first,        \* record of the first run once it is over, None before
    writes,       \* the coordinates whose slice was assigned, in order
    ns,           \* the names bound in the interpreter's namespace
    modules,      \* the modules imported so far in the session
    PathAttrs,    \* the attributes of the class pathlib.Path, each with the
                  \* module that defines it
    dir_native,   \* dir(path) as the first cell of the Path notebook took it
    dir_fastai,   \* dir(path) as the cell importing fastai took it
    report,       \* what the last cell about Path printed
    patchedBy     \* the import statement that loaded fastcore.utils, if any

params == <<yShape, xShape, J>>

kernel == <<ns, modules, PathAttrs, dir_native, dir_fastai, report, patchedBy>>

tensors == <<yShape, xShape, J, fault, pc, pos, v, xgrad, graph, derivatives,
             calls, failedAt, err, returned, todo, mode, inflight, answers,
             objs, vRef, callRefs, evals, sweep, first, writes>>

vars == <<yShape, xShape, J, fault, pc, pos, v, xgrad, graph, derivatives,
          calls, failedAt, err, returned, todo, mode, inflight, answers,
          objs, vRef, callRefs, evals, sweep, first, writes,
          ns, modules, PathAttrs, dir_native, dir_fastai, report, patchedBy>>

\* Python's None, where a tensor is expected.
None == [none |-> TRUE]

NoError == "none"

\* for i, j in ...: v[i,j] = 1.  The loop unpacks two indices; the cells
\* with a vector or a scalar output use one index or none.
Axes == 2

\* Bounds of the model: the number of entries of the mapping's Jacobian and
\* the largest partial derivative.
MaxEntries == 4
MaxVal == 1

\* The same number of entries for the specification with a hanging oracle
\* and for those with several runs of the sweep, and the number of runs.
MaxSweepEntries == 2
MaxSweeps == 3

----------------------------------------------------------------------------
\* Shapes, coordinates and tensors.

RECURSIVE Numel(_)
Numel(shape) ==
    IF shape = <<>> THEN 1
    ELSE shape[Len(shape)] * Numel(SubSeq(shape, 1, Len(shape) - 1))

RECURSIVE Coords(_)
Coords(shape) ==
    IF shape = <<>> THEN {<<>>}
    ELSE {Append(c, i) : c \in Coords(SubSeq(shape, 1, Len(shape) - 1)),
                         i \in 0 .. (shape[Len(shape)] - 1)}

\* Faulty variant: indices counted from 1.
RangeFromOne(n) == [k \in 1 .. n |-> k]

\* Faulty variant: range(_ + 1).
RangeInclusive(n) == [k \in 1 .. (n + 1) |-> k - 1]

\* range(n): 0, 1, ..., n-1
Range(n) == [k \in 1 .. n |-> k - 1]

\* ranges = [range(_) for _ in y.shape]
Ranges(shape) == [k \in 1 .. Len(shape) |-> Range(shape[k])]

\* Faulty variant: the first axis varies fastest.
ExtendColumnMajor(result, pool) ==
    [k \in 1 .. (Len(result) * Len(pool)) |->
        Append(result[((k - 1) % Len(result)) + 1], pool[((k - 1) \div Len(result)) + 1])]

\* [x + [y] for x in result for y in pool]
Extend(result, pool) ==
    [k \in 1 .. (Len(result) * Len(pool)) |->
        Append(result[((k - 1) \div Len(pool)) + 1], pool[((k - 1) % Len(pool)) + 1])]

\* itertools.product over the pools: result = [[]]; for pool in pools: result = Extend
RECURSIVE Product(_)
Product(pools) ==
    IF pools = <<>> THEN << <<>> >>
    ELSE Extend(Product(SubSeq(pools, 1, Len(pools) - 1)), pools[Len(pools)])

\* Faulty variant: the first index is the one laid out contiguously.
RECURSIVE OffsetColumnMajor(_, _)
OffsetColumnMajor(c, shape) ==
    IF c = <<>> THEN 0
    ELSE c[1] + shape[1] * OffsetColumnMajor(Tail(c), Tail(shape))

\* The place of coordinate c in the storage of a contiguous tensor: the last
\* index is the one laid out contiguously.
RECURSIVE Offset(_, _)
Offset(c, shape) ==
    IF c = <<>> THEN 0
    ELSE Offset(SubSeq(c, 1, Len(c) - 1), SubSeq(shape, 1, Len(shape) - 1)) * shape[Len(shape)]
         + c[Len(c)]

\* torch.tensor(list).view(shape): the values of the list under a shape
View(list, shape) ==
    [shape |-> shape, vals |-> [c \in Coords(shape) |-> list[Offset(c, shape) + 1]]]

\* Faulty variant: torch.ones_like(t), the seed of the multi-point cells.
OnesLike(t) == [shape |-> t.shape, vals |-> [c \in Coords(t.shape) |-> 1]]

\* torch.zeros_like(t)
ZerosLike(t) == [shape |-> t.shape, vals |-> [c \in Coords(t.shape) |-> 0]]

\* t[c] = val
SetItem(t, c, val) == [t EXCEPT !.vals[c] = val]

\* The tensor y: only its shape matters to the sweep.
Y == [shape |-> yShape, vals |-> [c \in Coords(yShape) |-> 0]]

\* The coordinates in the order the for loop visits them.
Order == Product(Ranges(yShape))

RECURSIVE SumOver(_, _)
SumOver(S, f) ==
    IF S = {} THEN 0
    ELSE LET c == CHOOSE c \in S : TRUE IN f[c] + SumOver(S \ {c}, f)

\* The vector-Jacobian product of seed s with the mapping's Jacobian.
VJP(s) ==
    [shape |-> xShape,
     vals |-> [d \in Coords(xShape) |->
        SumOver(Coords(s.shape), [c \in Coords(s.shape) |-> s.vals[c] * J[c][d]])]]

\* The engine adds a backward call's result to x.grad (it creates x.grad on
\* the first call), which is why the notebook zeroes it between calls.
AccumulateGrad(acc, g) ==
    IF acc = None THEN g
    ELSE [acc EXCEPT !.vals = [d \in DOMAIN acc.vals |-> acc.vals[d] + g.vals[d]]]

\* Faulty variant: x.grad is left as it is between the calls.
NotZeroed(g) == g

\* if x.grad is not None: x.grad.zero_()
Zeroed(g) == IF g /= None THEN ZerosLike(g) ELSE g

\* Faulty variant: v is not rebuilt, the 1. of the earlier iterations stays.
StaleSeed(prev, c) == IF prev = None THEN SetItem(ZerosLike(Y), c, 1) ELSE SetItem(prev, c, 1)

\* v = torch.zeros_like(y); v[i,j] = 1.   (prev is the seed of the previous
\* iteration, which the assignment to v drops)
Seed(prev, c) == SetItem(ZerosLike(Y), c, 1)

\* Faulty variant: y.backward(v), as on the last call of the unrolled cells.
RetainGraphOmitted == FALSE

\* y.backward(v, retain_graph=True)
RetainGraph == TRUE

\* Faulty variant: derivatives[i,j] = v[i,j].
StoreSeedValue(jac, c, g, s) ==
    [jac EXCEPT !.vals = [e \in DOMAIN jac.vals |->
        IF SubSeq(e, 1, Len(c)) = c THEN s.vals[c] ELSE jac.vals[e]]]

\* Faulty variant: derivatives[:] = x.grad, every slice is assigned.
StoreEverywhere(jac, c, g, s) ==
    [jac EXCEPT !.vals = [e \in DOMAIN jac.vals |->
        g.vals[SubSeq(e, Len(c) + 1, Len(e))]]]

\* derivatives[i,j] = x.grad.item(): the gradient becomes the slice of the
\* result at output coordinate c (s is the seed of the iteration)
StoreSlice(jac, c, g, s) ==
    [jac EXCEPT !.vals = [e \in DOMAIN jac.vals |->
        IF SubSeq(e, 1, Len(c)) = c
        THEN g.vals[SubSeq(e, Len(c) + 1, Len(e))]
        ELSE jac.vals[e]]]

\* The slice of a result at output coordinate c.
SliceAt(jac, c) == [d \in Coords(xShape) |-> jac.vals[c \o d]]

\* The rows of a result at the coordinates of a list, by coordinate.
RowsResult(jac, list) ==
    [rows |-> [c \in {list[k] : k \in 1 .. Len(list)} |->
                 [shape |-> xShape, vals |-> SliceAt(jac, c)]]]

----------------------------------------------------------------------------
\* The oracle's failures.

\* The oracle answers every call correctly, or answers call number `at` with
\* a gradient of the wrong shape, or has lost its retained state by call
\* number `at`.
Faults(shape) ==
    {[kind |-> "none", at |-> 0]} \cup
    {[kind |-> k, at |-> n] : k \in {"shape", "exhausted"}, n \in 1 .. Numel(shape)}

\* Besides, call number `at` may never come back.
FaultsWithHang(shape) ==
    Faults(shape) \cup {[kind |-> "hang", at |-> n] : n \in 1 .. Numel(shape)}

\* A gradient with the right values under a different shape.
Reshaped(g) ==
    [shape |-> Append(g.shape, 1),
     vals |-> [c \in Coords(Append(g.shape, 1)) |-> g.vals[SubSeq(c, 1, Len(c) - 1)]]]

\* ShapeMismatch: the gradient's shape is not the input's shape
ShapeOk(g) == g.shape = xShape

\* OracleExhausted: backward on a graph that has been released
Exhausted == graph = "released"

\* Faulty variant: the error is swallowed and the iteration goes on.
PcAfterErrorContinue == "store"

\* No handler surrounds the loop: an error leaves it for good.
PcAfterError == "failed"

\* Faulty variant: the slices stored so far are handed back.
PartialOnError(jac) == jac

\* The print after the loop is not reached: nothing is handed back.
HandedBackOnError(jac) == None

\* Faulty variant: the same coordinate is tried again.
SamePos(p) == p

\* the for loop moves on to the next coordinate of the product
NextPos(p) == p + 1

----------------------------------------------------------------------------
\* The sweep.

\* Faulty variant: the call is dispatched and the loop goes on.
PcDuringCallAsync == "store"

\* backward is an ordinary call: the loop waits for it.
PcDuringCall == "waiting"

\* Faulty variant: v[i,j] = 1. on the tensor of the iteration before.
SameObject(ref, n) == IF ref = 0 THEN n + 1 ELSE ref

\* torch.zeros_like(y) allocates a new tensor (n tensors exist already)
NewObject(ref, n) == n + 1

\* Faulty variant: y is computed again inside the loop.
EvalsRecomputing(n) == n + 1

\* The loop body reads y and never evaluates the mapping.
EvalsInLoop(n) == n

\* Faulty variant: the loop stops one coordinate early.
LoopOverEarly(p, list) == p >= Len(list)

\* Faulty variant: the loop never notices that the product is exhausted.
LoopNeverOver(p, list) == FALSE

\* the for loop ends when the product is exhausted
LoopOver(p, list) == p > Len(list)

Shapes ==
    {s \in UNION {[1 .. n -> 1 .. MaxEntries] : n \in 0 .. Axes} :
        Numel(s) <= MaxEntries}

\* Shapes of x and y and partial derivatives of the mapping at x, with at
\* most n entries in the Jacobian.
InitParams(n) ==
    /\ yShape \in Shapes
    /\ xShape \in Shapes
    /\ Numel(yShape) * Numel(xShape) <= n
    /\ J \in [Coords(yShape) -> [Coords(xShape) -> 0 .. MaxVal]]

RECURSIVE Power(_, _)
Power(x, k) == IF k = 0 THEN 1 ELSE x * Power(x, k - 1)

\* The derivative of x**k at x, as the engine computes it.
DPow(x, k) == IF k = 0 THEN 0 ELSE k * Power(x, k - 1)

\* x = torch.tensor(1.); y = torch.stack([-x**3, 5*x])
CubeAndLinearAt1 ==
    [y |-> <<2>>, x |-> <<>>,
     J |-> [c \in Coords(<<2>>) |-> [d \in Coords(<<>>) |->
              IF c = <<0>> THEN 0 - DPow(1, 3) ELSE 5]]]

\* x = torch.arange(4); y = torch.stack([x.sum(), (x**2).sum()])
SumAndSquaresAt0123 ==
    [y |-> <<2>>, x |-> <<4>>,
     J |-> [c \in Coords(<<2>>) |-> [d \in Coords(<<4>>) |->
              IF c = <<0>> THEN 1 ELSE DPow(d[1], 2)]]]

\* x = torch.tensor(1.); y = torch.stack([x**i for i in range(6)]).view(3,2)
PowersAt1 ==
    [y |-> <<3, 2>>, x |-> <<>>,
     J |-> [c \in Coords(<<3, 2>>) |-> [d \in Coords(<<>>) |->
              View([k \in 1 .. 6 |-> DPow(1, Range(6)[k])], <<3, 2>>).vals[c]]]]

\* f(x) = [x^2, x^3] at x = 2.0
SquareAndCubeAt2 ==
    [y |-> <<2>>, x |-> <<>>,
     J |-> [c \in Coords(<<2>>) |-> [d \in Coords(<<>>) |-> DPow(2, c[1] + 2)]]]

\* The mappings worked out in the cells, at their points.
Scenarios == {CubeAndLinearAt1, SumAndSquaresAt0123, PowersAt1, SquareAndCubeAt2}

InitScenario == \E m \in Scenarios : yShape = m.y /\ xShape = m.x /\ J = m.J

\* The state in which a run of the loop starts: derivatives = torch.zeros_like(y).
InitSweep ==
    /\ pc = "seed"
    /\ pos = 1
    /\ graph = IF fault.kind = "exhausted" /\ fault.at = 1 THEN "released" ELSE "retained"
    /\ derivatives = ZerosLike([shape |-> yShape \o xShape])
    /\ calls = <<>>
    /\ failedAt = 0
    /\ err = NoError
    /\ returned = None
    /\ inflight = 0
    /\ answers = <<>>
    /\ callRefs = <<>>
    /\ writes = <<>>

\* Attributes of pathlib's Path as the standard library defines it (home is
\* the one the cells use).
NativeAttrs == {"home", "exists", "open", "read_text", "write_text"}

NativePath == [a \in NativeAttrs |-> "pathlib"]

NoReport ==
    [cell |-> "none", has_ls |-> FALSE, added |-> {}, path_module |-> "",
     ls_module |-> "", error |-> NoError]

\* The interpreter has just started: nothing is imported, no name is bound.
InitKernel ==
    /\ ns = {}
    /\ modules = {}
    /\ PathAttrs = NativePath
    /\ dir_native = {}
    /\ dir_fastai = {}
    /\ report = NoReport
    /\ patchedBy = "none"

\* x and y are new: x.grad is None, v is unbound, y was computed once.
InitFresh ==
    /\ InitKernel
    /\ v = None
    /\ xgrad = None
    /\ objs = <<>>
    /\ vRef = 0
    /\ evals = 1
    /\ sweep = 1
    /\ first = None

Init ==
    /\ InitParams(MaxEntries) \/ InitScenario
    /\ fault \in Faults(yShape)
    /\ mode = "jacobian"
    /\ todo = Order
    /\ InitSweep
    /\ InitFresh

\* for i, j in itertools.product of the ranges: v = torch.zeros_like(y); v[i,j] = 1.
NewSeed ==
    /\ pc = "seed"
    /\ ~LoopOver(pos, todo)
    /\ pos <= Len(todo)
    /\ v' = Seed(v, todo[pos])
    /\ vRef' = NewObject(vRef, Len(objs))
    /\ objs' = [r \in 1 .. (IF vRef' > Len(objs) THEN vRef' ELSE Len(objs)) |->
                    IF r = vRef' THEN v' ELSE objs[r]]
    /\ pc' = "zero"
    /\ UNCHANGED kernel
    /\ UNCHANGED <<params, writes, fault, pos, xgrad, graph, derivatives, calls, failedAt,
                   err, returned, todo, mode, inflight, answers, callRefs, evals,
                   sweep, first>>

\* if x.grad is not None: x.grad.zero_()
ZeroGrad ==
    /\ pc = "zero"
    /\ xgrad' = Zeroed(xgrad)
    /\ pc' = "backward"
    /\ UNCHANGED kernel
    /\ UNCHANGED <<params, writes, fault, pos, v, graph, derivatives, calls, failedAt,
                   err, returned, todo, mode, inflight, answers, objs, vRef,
                   callRefs, evals, sweep, first>>

\* y.backward(v, retain_graph=True): the call is issued
Backward ==
    /\ pc = "backward"
    /\ calls' = Append(calls, v)
    /\ callRefs' = Append(callRefs, vRef)
    /\ inflight' = inflight + 1
    /\ pc' = PcDuringCall
    /\ UNCHANGED kernel
    /\ UNCHANGED <<params, writes, fault, pos, v, xgrad, graph, derivatives, failedAt,
                   err, returned, todo, mode, answers, objs, vRef, evals, sweep,
                   first>>

\* y.backward(v, retain_graph=True): the call comes back, with the gradient
\* added to x.grad or with an error
BackwardReturns ==
    /\ inflight > 0
    /\ ~(fault.kind = "hang" /\ fault.at = Len(calls) - inflight + 1)
    /\ inflight' = inflight - 1
    /\ LET n == Len(calls) - inflight + 1
       IN IF Exhausted
          THEN /\ pc' = PcAfterError
               /\ err' = "OracleExhausted"
               /\ failedAt' = IF failedAt = 0 THEN n ELSE failedAt
               /\ returned' = HandedBackOnError(derivatives)
               /\ UNCHANGED <<xgrad, graph, answers>>
          ELSE /\ xgrad' = IF fault.kind = "shape" /\ fault.at = n
                           THEN Reshaped(AccumulateGrad(xgrad, VJP(calls[n])))
                           ELSE AccumulateGrad(xgrad, VJP(calls[n]))
               /\ answers' = Append(answers, xgrad')
               /\ graph' = IF RetainGraph
                              /\ ~(fault.kind = "exhausted" /\ fault.at = n + 1)
                           THEN "retained" ELSE "released"
               /\ pc' = IF pc = "waiting" THEN "store" ELSE pc
               /\ UNCHANGED <<err, failedAt, returned>>
    /\ UNCHANGED kernel
    /\ UNCHANGED <<params, writes, fault, pos, v, derivatives, calls, todo, mode, objs,
                   vRef, callRefs, evals, sweep, first>>

\* derivatives[i,j] = x.grad.item()
Store ==
    /\ pc = "store"
    /\ IF xgrad /= None /\ ShapeOk(xgrad)
       THEN /\ derivatives' = StoreSlice(derivatives, todo[pos], xgrad, v)
            /\ writes' = Append(writes, todo[pos])
            /\ pos' = NextPos(pos)
            /\ pc' = "seed"
            /\ UNCHANGED <<err, failedAt, returned>>
       ELSE /\ pc' = PcAfterError
            /\ err' = "ShapeMismatch"
            /\ failedAt' = IF failedAt = 0 THEN Len(calls) ELSE failedAt
            /\ returned' = HandedBackOnError(derivatives)
            /\ UNCHANGED <<derivatives, pos, writes>>
    /\ evals' = EvalsInLoop(evals)
    /\ UNCHANGED kernel
    /\ UNCHANGED <<params, fault, v, xgrad, graph, calls, todo, mode, inflight,
                   answers, objs, vRef, callRefs, sweep, first>>

\* print(derivatives): the loop is over, the result is handed back
Finish ==
    /\ pc = "seed"
    /\ LoopOver(pos, todo)
    /\ returned' = IF mode = "rows" THEN RowsResult(derivatives, todo) ELSE derivatives
    /\ pc' = "done"
    /\ UNCHANGED kernel
    /\ UNCHANGED <<params, writes, fault, pos, v, xgrad, graph, derivatives, calls,
                   failedAt, err, todo, mode, inflight, answers, objs, vRef,
                   callRefs, evals, sweep, first>>

Next == NewSeed \/ ZeroGrad \/ Backward \/ BackwardReturns \/ Store \/ Finish

Spec == Init /\ [][Next]_vars

----------------------------------------------------------------------------
\* Several runs of the sweep on the same x and y.

\* The lists of distinct output coordinates a caller may ask for.
RowLists(shape) ==
    UNION {{l \in [1 .. k -> Coords(shape)] :
               \A i, j \in 1 .. k : i /= j => l[i] /= l[j]} : k \in 0 .. Numel(shape)}

\* The loop is entered again: derivatives = torch.zeros_like(y), a new product.
\* x.grad is what the run before left (a wrong-shaped answer is not x.grad),
\* or None if x was built anew; the first completed run is remembered.
StartRun(f, md, list) ==
    /\ pc \in {"done", "failed"}
    /\ sweep < MaxSweeps
    /\ sweep' = sweep + 1
    /\ first' = IF first = None /\ pc = "done"
                THEN [fault |-> fault, mode |-> mode, todo |-> todo,
                      seeds |-> calls, returned |-> returned]
                ELSE first
    /\ fault' = f
    /\ mode' = md
    /\ todo' = list
    /\ xgrad' \in {IF xgrad /= None /\ ShapeOk(xgrad) THEN xgrad ELSE None, None}
    /\ pc' = "seed"
    /\ pos' = 1
    /\ graph' = IF f.kind = "exhausted" /\ f.at = 1 THEN "released" ELSE "retained"
    /\ derivatives' = ZerosLike([shape |-> yShape \o xShape])
    /\ calls' = <<>>
    /\ failedAt' = 0
    /\ err' = NoError
    /\ returned' = None
    /\ inflight' = 0
    /\ answers' = <<>>
    /\ callRefs' = <<>>
    /\ objs' = <<>>
    /\ vRef' = 0
    /\ writes' = <<>>
    /\ UNCHANGED kernel
    /\ UNCHANGED <<params, v, evals>>

\* The whole sweep is run again, with an oracle that may fail.
RunAgain == \E f \in Faults(yShape) : StartRun(f, "jacobian", Order)

\* The sweep is run for the coordinates of a list only.
RunRows == \E l \in RowLists(yShape) : StartRun([kind |-> "none", at |-> 0], "rows", l)

InitRuns ==
    /\ InitParams(MaxSweepEntries)
    /\ fault \in Faults(yShape)
    /\ mode = "jacobian"
    /\ todo = Order
    /\ InitSweep
    /\ InitFresh

NextRuns == Next \/ RunAgain

SpecRuns == InitRuns /\ [][NextRuns]_vars

InitRows ==
    /\ InitParams(MaxSweepEntries)
    /\ fault = [kind |-> "none", at |-> 0]
    /\ mode = "jacobian"
    /\ todo = Order
    /\ InitSweep
    /\ InitFresh

NextRows == Next \/ RunRows

SpecRows == InitRows /\ [][NextRows]_vars

----------------------------------------------------------------------------
\* The cells that write the two calls out by hand (v1, v2), and the cells
\* that differentiate at several points with one call.

\* torch.tensor([1. if i == sel else 0. for i, j in the itertools.product of
\* the ranges]).view of y.shape
ComponentSeed(sel, shape) ==
    View([k \in 1 .. Numel(shape) |->
             IF Product(Ranges(shape))[k][1] = sel THEN 1 ELSE 0], shape)

\* Faulty variant: y.backward(v1), without retain_graph.
RetainGraphCellOmitted(k) == FALSE

\* y.backward(v1, retain_graph=True) for the first call, y.backward(v2) for
\* the second
RetainGraphCell(k) == k = 1

\* x = torch.arange(3); y = torch.stack([-x**3, 5*x])
CubeAndLinearAt012 ==
    [y |-> <<2, 3>>, x |-> <<3>>,
     J |-> [c \in Coords(<<2, 3>>) |-> [d \in Coords(<<3>>) |->
              IF c[2] /= d[1] THEN 0
              ELSE IF c[1] = 0 THEN 0 - DPow(Range(3)[d[1] + 1], 3) ELSE 5]]]

\* x = torch.arange(4*3).view(-1,4); y = torch.stack([x.sum(1), (x**2).sum(1)])
RowSumsAndSquares ==
    [y |-> <<2, 3>>, x |-> <<3, 4>>,
     J |-> [c \in Coords(<<2, 3>>) |-> [d \in Coords(<<3, 4>>) |->
              IF c[2] /= d[1] THEN 0
              ELSE IF c[1] = 0 THEN 1
                   ELSE DPow(View(Range(12), <<3, 4>>).vals[d], 2)]]]

CellScenarios == {CubeAndLinearAt012, RowSumsAndSquares}

\* y is a stack of two component functions.
InitCells ==
    /\ \/ /\ InitParams(MaxEntries)
          /\ Len(yShape) >= 1
          /\ yShape[1] = 2
       \/ \E m \in CellScenarios \cup {CubeAndLinearAt1, SumAndSquaresAt0123} :
             yShape = m.y /\ xShape = m.x /\ J = m.J
    /\ fault = [kind |-> "none", at |-> 0]
    /\ mode = "cells"
    /\ todo = << <<0>>, <<1>> >>
    /\ pc = "cell_seed"
    /\ pos = 1
    /\ graph = "retained"
    /\ derivatives = ZerosLike([shape |-> yShape \o xShape])
    /\ calls = <<>>
    /\ failedAt = 0
    /\ err = NoError
    /\ returned = None
    /\ inflight = 0
    /\ answers = <<>>
    /\ callRefs = <<>>
    /\ writes = <<>>
    /\ InitFresh

\* v1 = ..., v2 = ...
CellSeed ==
    /\ pc = "cell_seed"
    /\ v' = ComponentSeed(todo[pos][1], yShape)
    /\ vRef' = NewObject(vRef, Len(objs))
    /\ objs' = Append(objs, v')
    /\ pc' = "cell_backward"
    /\ UNCHANGED kernel
    /\ UNCHANGED <<params, fault, pos, xgrad, graph, derivatives, calls, failedAt,
                   err, returned, todo, mode, inflight, answers, callRefs, evals,
                   sweep, first, writes>>

\* y.backward(v1, retain_graph=True), y.backward(v2): the engine refuses to
\* go through a graph it has released, and releases it unless told to retain
CellBackward ==
    /\ pc = "cell_backward"
    /\ calls' = Append(calls, v)
    /\ callRefs' = Append(callRefs, vRef)
    /\ IF Exhausted
       THEN /\ pc' = PcAfterError
            /\ err' = "OracleExhausted"
            /\ failedAt' = Len(calls')
            /\ UNCHANGED <<xgrad, graph, answers>>
       ELSE /\ xgrad' = AccumulateGrad(xgrad, VJP(v))
            /\ graph' = IF RetainGraphCell(pos) THEN "retained" ELSE "released"
            /\ answers' = Append(answers, xgrad')
            /\ pc' = "cell_print"
            /\ UNCHANGED <<err, failedAt>>
    /\ UNCHANGED kernel
    /\ UNCHANGED <<params, fault, pos, v, derivatives, returned, todo, mode,
                   inflight, objs, vRef, evals, sweep, first, writes>>

\* print(x.grad), and the end of the cell after the second
CellPrint ==
    /\ pc = "cell_print"
    /\ pc' = IF pos = Len(todo) THEN "done" ELSE "cell_zero"
    /\ UNCHANGED kernel
    /\ UNCHANGED <<params, fault, pos, v, xgrad, graph, derivatives, calls,
                   failedAt, err, returned, todo, mode, inflight, answers, objs,
                   vRef, callRefs, evals, sweep, first, writes>>

\* x.grad.zero_()
CellZero ==
    /\ pc = "cell_zero"
    /\ xgrad' = ZerosLike(xgrad)
    /\ pos' = pos + 1
    /\ pc' = "cell_seed"
    /\ UNCHANGED kernel
    /\ UNCHANGED <<params, fault, v, graph, derivatives, calls, failedAt, err,
                   returned, todo, mode, inflight, answers, objs, vRef,
                   callRefs, evals, sweep, first, writes>>

\* torch.ones_like(y)
ones_like(t) == [shape |-> t.shape, vals |-> [c \in Coords(t.shape) |-> 1]]

\* Faulty variant: the gradient of the sum reaches the first summand only.
SumBackwardFirst(g, t) ==
    [shape |-> t.shape,
     vals |-> [c \in Coords(t.shape) |-> IF \A k \in 1 .. Len(c) : c[k] = 0 THEN g ELSE 0]]

\* The engine's step back through sum(): every summand gets the gradient of
\* the sum.
SumBackward(g, t) == [shape |-> t.shape, vals |-> [c \in Coords(t.shape) |-> g]]

\* x = ...; y = x**2; gradient = torch.ones_like(y); y.backward(gradient)
\* on a new x, here after the sweep over the same mapping
OnesLikeCell ==
    /\ pc = "done"
    /\ mode = "jacobian"
    /\ mode' = "ones"
    /\ v' = ones_like(Y)
    /\ calls' = Append(calls, v')
    /\ xgrad' = AccumulateGrad(None, VJP(v'))
    /\ answers' = Append(answers, xgrad')
    /\ graph' = "released"
    /\ evals' = evals + 1
    /\ pc' = "ones_done"
    /\ UNCHANGED kernel
    /\ UNCHANGED <<params, fault, pos, derivatives, failedAt, err, returned,
                   todo, inflight, objs, vRef, callRefs, sweep, first, writes>>

\* x = ...; y = (x**2).sum(); y.backward() on a new x: the gradient of a
\* scalar defaults to 1.
SumCell ==
    /\ pc = "ones_done"
    /\ mode' = "sum"
    /\ v' = SumBackward(1, Y)
    /\ calls' = Append(calls, v')
    /\ xgrad' = AccumulateGrad(None, VJP(v'))
    /\ answers' = Append(answers, xgrad')
    /\ graph' = "released"
    /\ evals' = evals + 1
    /\ pc' = "done"
    /\ UNCHANGED kernel
    /\ UNCHANGED <<params, fault, pos, derivatives, failedAt, err, returned,
                   todo, inflight, objs, vRef, callRefs, sweep, first, writes>>

\* The cells of the notebook as written: the loop, then the two cells for
\* several points, or the two calls written out by hand.
InitLoop ==
    /\ InitParams(MaxEntries) \/ InitScenario
    /\ fault = [kind |-> "none", at |-> 0]
    /\ mode = "jacobian"
    /\ todo = Order
    /\ InitSweep
    /\ InitFresh

InitNotebook == InitLoop \/ InitCells

NextNotebook ==
    Next \/ CellSeed \/ CellBackward \/ CellPrint \/ CellZero \/ OnesLikeCell \/ SumCell

SpecNotebook == InitNotebook /\ [][NextNotebook]_vars

----------------------------------------------------------------------------
\* The cells about pathlib's Path and the attributes fastai adds to it.

\* The attributes the import adds to Path, as the notebook's cell lists them.
AddedAttrs ==
    {"load", "load_array", "ls", "read", "readlines", "save", "save_array", "write"}

\* fastcore.utils, when it is loaded, adds its functions to the class Path.
Patch(attrs) ==
    [a \in DOMAIN attrs \cup AddedAttrs |->
        IF a \in AddedAttrs THEN "fastcore.utils" ELSE attrs[a]]

\* The class Path after an import statement that needs fastcore.utils: a
\* module is loaded once in a session, on the first import that needs it.
AfterImport(attrs, loaded) == IF "fastcore.utils" \in loaded THEN attrs ELSE Patch(attrs)

\* dir(path): the names of the attributes of the object
Dir(attrs) == DOMAIN attrs

\* Faulty variant: set(dir_fastai), nothing subtracted.
NotSubtracted(a, b) == a

\* set(dir_fastai) - set(dir_native)
Difference(a, b) == a \ b

\* Faulty variant: the class is restored to what pathlib defines.
XDelRestoresClass(attrs) == NativePath

\* %xdel Path deletes the name; the class it was bound to is left as it is.
XDelClass(attrs) == attrs

\* inspect.getmodule(Path.ls).__name__, AttributeError if Path has no ls
ModuleOfLs(attrs) == IF "ls" \in DOMAIN attrs THEN attrs["ls"] ELSE ""

\* from pathlib import Path; path = Path().home(); dir_native = dir(path)
NativeCell ==
    /\ modules' = modules \cup {"pathlib"}
    /\ ns' = ns \cup {"Path", "path", "dir_native"}
    /\ dir_native' = Dir(PathAttrs)
    /\ report' = [NoReport EXCEPT !.cell = "native", !.has_ls = "ls" \in dir_native']
    /\ UNCHANGED <<PathAttrs, dir_fastai, patchedBy>>
    /\ UNCHANGED tensors

\* %xdel Path; try: Path ... except NameError: print(...)
XDelCell ==
    /\ ns' = ns \ {"Path"}
    /\ PathAttrs' = XDelClass(PathAttrs)
    /\ report' = [NoReport EXCEPT !.cell = "xdel",
                                   !.error = IF "Path" \in ns' THEN NoError ELSE "NameError"]
    /\ UNCHANGED <<modules, dir_native, dir_fastai, patchedBy>>
    /\ UNCHANGED tensors

\* from fastai2.vision.all import *; path = Path().home(); dir_fastai = dir(path)
FastaiCell ==
    /\ PathAttrs' = AfterImport(PathAttrs, modules)
    /\ patchedBy' = IF "fastcore.utils" \in modules THEN patchedBy ELSE "fastai2.vision.all"
    /\ modules' = modules \cup {"pathlib", "fastcore.utils", "fastai2.vision.all"}
    /\ ns' = ns \cup {"Path", "path", "dir_fastai"}
    /\ dir_fastai' = Dir(PathAttrs')
    /\ report' = [NoReport EXCEPT !.cell = "fastai", !.has_ls = "ls" \in dir_fastai']
    /\ UNCHANGED dir_native
    /\ UNCHANGED tensors

\* set(dir_fastai) - set(dir_native)
DiffCell ==
    /\ report' = IF {"dir_fastai", "dir_native"} \subseteq ns
                 THEN [NoReport EXCEPT !.cell = "diff",
                                       !.added = Difference(dir_fastai, dir_native)]
                 ELSE [NoReport EXCEPT !.cell = "diff", !.error = "NameError"]
    /\ UNCHANGED <<ns, modules, PathAttrs, dir_native, dir_fastai, patchedBy>>
    /\ UNCHANGED tensors

\* from fastai2.vision.all import *; import inspect; print the modules that
\* define Path and Path.ls
InspectCell ==
    /\ PathAttrs' = AfterImport(PathAttrs, modules)
    /\ patchedBy' = IF "fastcore.utils" \in modules THEN patchedBy ELSE "fastai2.vision.all"
    /\ modules' = modules \cup {"pathlib", "fastcore.utils", "fastai2.vision.all", "inspect"}
    /\ ns' = ns \cup {"Path", "inspect"}
    /\ report' = [NoReport EXCEPT !.cell = "inspect",
                                   !.path_module = "pathlib",
                                   !.ls_module = ModuleOfLs(PathAttrs'),
                                   !.error = IF "ls" \in DOMAIN PathAttrs' THEN NoError
                                             ELSE "AttributeError"]
    /\ UNCHANGED <<dir_native, dir_fastai>>
    /\ UNCHANGED tensors

\* %xdel Path; from pathlib import Path; from fastcore.utils import ls; print
\* the modules that define Path and Path.ls (inspect is not imported here)
MinimalCell ==
    /\ PathAttrs' = AfterImport(XDelClass(PathAttrs), modules)
    /\ patchedBy' = IF "fastcore.utils" \in modules THEN patchedBy ELSE "fastcore.utils"
    /\ modules' = modules \cup {"pathlib", "fastcore.utils"}
    /\ ns' = ns \cup {"Path", "ls"}
    /\ report' = IF "inspect" \notin ns
                 THEN [NoReport EXCEPT !.cell = "minimal", !.error = "NameError"]
                 ELSE [NoReport EXCEPT !.cell = "minimal",
                                       !.path_module = "pathlib",
                                       !.ls_module = ModuleOfLs(PathAttrs'),
                                       !.error = IF "ls" \in DOMAIN PathAttrs' THEN NoError
                                                 ELSE "AttributeError"]
    /\ UNCHANGED <<dir_native, dir_fastai>>
    /\ UNCHANGED tensors

\* No tensor cell runs in the session about Path.
InitSession ==
    /\ yShape = <<>>
    /\ xShape = <<>>
    /\ J = [c \in Coords(<<>>) |-> [d \in Coords(<<>>) |-> 0]]
    /\ fault = [kind |-> "none", at |-> 0]
    /\ mode = "none"
    /\ todo = <<>>
    /\ pc = "idle"
    /\ pos = 1
    /\ graph = "retained"
    /\ derivatives = ZerosLike([shape |-> <<>>])
    /\ calls = <<>>
    /\ failedAt = 0
    /\ err = NoError
    /\ returned = None
    /\ inflight = 0
    /\ answers = <<>>
    /\ callRefs = <<>>
    /\ writes = <<>>
    /\ InitFresh

NextSession ==
    NativeCell \/ XDelCell \/ FastaiCell \/ DiffCell \/ InspectCell \/ MinimalCell

SpecSession == InitSession /\ [][NextSession]_vars

----------------------------------------------------------------------------
\* The sweep with an oracle that may hang.  The interpreter always executes
\* the next statement, and a call comes back unless it is the hanging one.
InitLive ==
    /\ InitParams(MaxSweepEntries)
    /\ fault \in FaultsWithHang(yShape)
    /\ mode = "jacobian"
    /\ todo = Order
    /\ InitSweep
    /\ InitFresh

SpecLive == InitLive /\ [][Next]_vars /\ WF_vars(Next)

----------------------------------------------------------------------------
\* Vocabulary of the properties.

\* The seed that is 1 at coordinate c of the output and 0 elsewhere.
OneHot(c) == [shape |-> yShape, vals |-> [e \in Coords(yShape) |-> IF e = c THEN 1 ELSE 0]]

\* The coordinates at which a seed is 1.
SeededAt(s) == {c \in DOMAIN s.vals : s.vals[c] = 1}

\* c comes before d in lexicographic order.
LexLess(c, d) ==
    \E k \in 1 .. Len(c) : c[k] < d[k] /\ \A m \in 1 .. (k - 1) : c[m] = d[m]

\* The values of a tensor in row-major order, which is what a reshape keeps.
Flat(t) == [k \in 1 .. Numel(t.shape) |-> t.vals[Product(Ranges(t.shape))[k]]]

\* The mapping is the identity: its oracle returns its seed.
IdentityMapping ==
    /\ yShape = xShape
    /\ \A c \in Coords(yShape), d \in Coords(xShape) : J[c][d] = (IF c = d THEN 1 ELSE 0)

Completed == pc = "done"

----------------------------------------------------------------------------
C2_CallsInLexicographicOrder ==
    \A j \in 1 .. Len(calls) : \A d \in SeededAt(calls[j]) :
        /\ \A c \in Coords(yShape) :
              LexLess(c, d) => \E i \in 1 .. (j - 1) : c \in SeededAt(calls[i])
        /\ \A i \in 1 .. Len(calls) : \A c \in SeededAt(calls[i]) :
              LexLess(c, d) => i < j

C2_Witness ==
    /\ Len(yShape) = 2
    /\ yShape[1] >= 2
    /\ yShape[2] >= 2
    /\ Len(calls) = 4

\* C3: every seed passed to the oracle has the output's shape and is 1 at
\* exactly one coordinate, the one being processed, and 0 everywhere else.
C3_SeedsAreOneHot ==
    /\ \A i \in 1 .. Len(calls) :
          /\ calls[i].shape = yShape
          /\ DOMAIN calls[i].vals = Coords(yShape)
          /\ \E c \in Coords(yShape) :
                \A e \in Coords(yShape) : calls[i].vals[e] = (IF e = c THEN 1 ELSE 0)
    /\ pc = "store" /\ pos <= Len(todo) =>
          /\ todo[pos] \in Coords(yShape)
          /\ calls[Len(calls)] = OneHot(todo[pos])

C3_Witness ==
    /\ Numel(yShape) >= 3
    /\ Len(calls) >= 3
    /\ pc = "store"

\* C4: for outputShape = (m,) a completed sweep has made exactly m calls,
\* with pairwise distinct seeds, the i-th of them 1 at index i (counted
\* from 0) and nowhere else.
C4_VectorOutputCalls ==
    Completed /\ Len(yShape) = 1 =>
        /\ Len(calls) = yShape[1]
        /\ \A i \in 1 .. Len(calls) :
              /\ SeededAt(calls[i]) = {<<i - 1>>}
              /\ \A e \in DOMAIN calls[i].vals : e /= <<i - 1>> => calls[i].vals[e] = 0
        /\ \A i, j \in 1 .. Len(calls) : i /= j => calls[i] /= calls[j]

C4_Witness ==
    /\ Completed
    /\ Len(yShape) = 1
    /\ yShape[1] >= 3
    /\ Len(calls) >= 3

C6_CallCountIsElementCount ==
    Completed =>
        /\ Len(calls) = Numel(yShape)
        /\ yShape \in {<<1>>, <<1, 1>>} => Len(calls) = 1

C6_Witness ==
    /\ Completed
    /\ yShape = <<1, 1>>
    /\ Len(calls) = 1

\* C7: when an answer of the oracle has not the input's shape the sweep ends
\* with ShapeMismatch and hands back nothing, the slices stored before it
\* included.
C7_ShapeMismatchDiscards ==
    /\ fault.kind = "shape" /\ Len(answers) >= fault.at /\ pc /= "store" =>
          /\ pc = "failed"
          /\ err = "ShapeMismatch"
    /\ err = "ShapeMismatch" => returned = None

C7_Witness ==
    /\ err = "ShapeMismatch"
    /\ pos >= 2
    /\ \E e \in DOMAIN derivatives.vals : derivatives.vals[e] /= 0

\* C8: when the oracle is called after its retained state was released the
\* sweep ends with OracleExhausted: no recomputation, no further call, no
\* result.
C8_ExhaustedIsSurfaced ==
    /\ fault.kind = "exhausted" /\ Len(calls) - inflight >= fault.at =>
          /\ pc = "failed"
          /\ err = "OracleExhausted"
          /\ Len(calls) = fault.at
    /\ err = "OracleExhausted" => returned = None /\ graph = "released"

C8_Witness ==
    /\ err = "OracleExhausted"
    /\ Len(calls) >= 2

\* C9: no retries: no coordinate is passed to the oracle twice in a sweep,
\* and the call that fails is the last call of the sweep.
C9_NoRetries ==
    /\ \A i, j \in 1 .. Len(calls) :
          i /= j => SeededAt(calls[i]) \cap SeededAt(calls[j]) = {}
    /\ err /= NoError => failedAt /= 0
    /\ failedAt /= 0 => Len(calls) = failedAt

C9_Witness ==
    /\ failedAt >= 2
    /\ failedAt < Numel(yShape)
    /\ pc = "failed"

C19_SquareAndCube ==
    /\ returned /= None
    /\ yShape = <<2>>
    /\ xShape = <<>>
    /\ VJP(OneHot(<<0>>)).vals[<<>>] = 4
    /\ VJP(OneHot(<<1>>)).vals[<<>>] = 12
    => /\ returned.shape = <<2>>
       /\ returned.vals = [c \in Coords(<<2>>) |-> IF c = <<0>> THEN 4 ELSE 12]

C19_Witness ==
    /\ returned /= None
    /\ yShape = SquareAndCubeAt2.y
    /\ xShape = SquareAndCubeAt2.x
    /\ J = SquareAndCubeAt2.J
    /\ Len(calls) = 2
    /\ returned.vals[<<1>>] = 12

C15_CallsNeverOverlap ==
    /\ inflight <= 1
    /\ inflight = 1 => pc = "waiting"
    /\ pc = "backward" => inflight = 0 /\ Len(answers) = Len(calls)

C15_Witness ==
    /\ pc = "waiting"
    /\ inflight = 1
    /\ Len(calls) >= 2

\* C16: the sweep never releases the oracle's retained state: unless the
\* oracle loses it by itself the graph stays retained, and after a
\* completed sweep the oracle can still be called.
C16_GraphKeptBySweep ==
    /\ fault.kind /= "exhausted" => graph = "retained"
    /\ Completed => graph = "retained" /\ ~Exhausted

C16_Witness ==
    /\ Completed
    /\ Len(calls) >= 2
    /\ graph = "retained"

\* C17: the sweep never evaluates the mapping: y was computed once, before
\* the loop, and the number of evaluations stays at one through the sweep.
C17_MappingNeverEvaluated ==
    /\ evals = 1
    /\ Completed => Len(answers) = Len(calls)

C17_Witness ==
    /\ Completed
    /\ Len(calls) >= 2
    /\ evals = 1

\* C18: if every oracle call returns, the sweep eventually returns the
\* assembled result, all coordinates processed; if a call never returns,
\* the sweep stays in that call and never completes.
C18_ReturnsUnlessOracleHangs ==
    /\ (fault.kind = "none") ~>
          (Completed /\ returned /= None /\ Len(answers) = Len(todo))
    /\ [](fault.kind = "hang" => ~Completed /\ returned = None)
    /\ [](fault.kind = "hang" /\ Len(calls) >= fault.at =>
             pc = "waiting" /\ Len(calls) = fault.at)

C18_Witness ==
    /\ fault.kind = "hang"
    /\ fault.at >= 2
    /\ Len(calls) = fault.at
    /\ pc = "waiting"

\* The rows of a computeRows result, laid out one after the other in the
\* order of a list.
Reassembled(rows, list) ==
    [k \in 1 .. (Len(list) * Numel(xShape)) |->
        Flat(rows[list[((k - 1) \div Numel(xShape)) + 1]])[((k - 1) % Numel(xShape)) + 1]]

\* The list names every output coordinate once.
FullList(list) ==
    /\ Len(list) = Numel(yShape)
    /\ {list[k] : k \in 1 .. Len(list)} = Coords(yShape)

RowsRunAfterFullRun == mode = "rows" /\ Completed /\ first /= None

C12_RowsAreSlices ==
    /\ mode = "rows" =>
          /\ Len(calls) <= Len(todo)
          /\ \A k \in 1 .. Len(calls) : calls[k] = OneHot(todo[k])
    /\ RowsRunAfterFullRun =>
          /\ Len(calls) = Len(todo)
          /\ DOMAIN returned.rows = {todo[k] : k \in 1 .. Len(todo)}
          /\ \A c \in DOMAIN returned.rows :
                /\ returned.rows[c].shape = xShape
                /\ returned.rows[c].vals = SliceAt(first.returned, c)

C12_Witness ==
    /\ RowsRunAfterFullRun
    /\ Len(todo) = 1
    /\ Numel(yShape) >= 2
    /\ LexLess(<<0>>, todo[1])
    /\ \E d \in Coords(xShape) : returned.rows[todo[1]].vals[d] /= 0

\* C13: the sweep keeps nothing from one run to the next: a run with the
\* same shapes and the same oracle as an earlier completed run passes the
\* same seeds in the same order and returns the same result, whatever runs,
\* completed or failed, came in between.
C13_RunsAreIndependent ==
    first /= None /\ first.fault = fault =>
        /\ Len(calls) <= Len(first.seeds)
        /\ \A i \in 1 .. Len(calls) : calls[i] = first.seeds[i]
        /\ pc /= "failed"
        /\ Completed => calls = first.seeds /\ returned = first.returned

C13_Witness ==
    /\ sweep = 3
    /\ Completed
    /\ first /= None
    /\ first.fault = fault
    /\ Len(calls) >= 2
    /\ xgrad /= None
    /\ \E c \in DOMAIN returned.vals : returned.vals[c] /= 0

----------------------------------------------------------------------------
\* C22: in the loop x.grad is None before the first backward call and zero
\* before every later one, so the value read after the call for a
\* coordinate is the vector-Jacobian product of that call's seed alone,
\* never a sum over several coordinates.
C22_AccumulatorResetBeforeEachCall ==
    /\ pc \in {"backward", "waiting"} =>
          IF Len(answers) = 0 THEN xgrad = None
          ELSE xgrad /= None /\ \A d \in DOMAIN xgrad.vals : xgrad.vals[d] = 0
    /\ pc = "store" /\ ~(fault.kind = "shape" /\ fault.at = Len(calls)) =>
          /\ xgrad = VJP(v)
          /\ xgrad.vals = [d \in Coords(xShape) |-> J[todo[pos]][d]]

C22_Witness ==
    /\ pc = "store"
    /\ pos >= 2
    /\ fault.kind = "none"
    /\ \E d \in Coords(xShape) : J[todo[1]][d] /= 0 /\ J[todo[pos]][d] /= 0

\* C27: at every point of a sweep the slices assigned so far are those of
\* the coordinates the loop has gone through, a prefix of the row-major
\* order, each assigned once; a slice once assigned is not changed by a
\* later step.
C27_SlicesWrittenOncePrefix ==
    /\ [](/\ Len(writes) <= Len(todo)
          /\ writes = SubSeq(todo, 1, Len(writes))
          /\ \A i, k \in 1 .. Len(writes) : i /= k => writes[i] /= writes[k]
          /\ mode = "jacobian" /\ pc \in {"seed", "done"} => Len(writes) = pos - 1
          /\ mode = "jacobian" =>
                \A i, k \in 1 .. Len(writes) : i < k => LexLess(writes[i], writes[k]))
    /\ [][\A k \in 1 .. Len(writes) :
             SliceAt(derivatives', writes[k]) = SliceAt(derivatives, writes[k])]_vars

C27_Witness ==
    /\ mode = "jacobian"
    /\ fault.kind = "none"
    /\ Len(writes) >= 3
    /\ Len(yShape) = 2
    /\ pc = "store"
    /\ \E d \in Coords(xShape) : xgrad.vals[d] /= derivatives.vals[writes[1] \o d]

\* C23: for y = [x^0 .. x^5] viewed as shape (3,2) at x = 1 the sweep fills
\* derivatives[i][j] with 2*i + j: the result is [[0,1],[2,3],[4,5]].
C23_PowersViewedAs3By2 ==
    yShape = PowersAt1.y /\ xShape = PowersAt1.x /\ J = PowersAt1.J
    /\ fault.kind = "none" =>
        /\ \A k \in 1 .. Len(writes) :
              derivatives.vals[writes[k]] = 2 * writes[k][1] + writes[k][2]
        /\ Completed =>
              /\ returned.shape = <<3, 2>>
              /\ returned.vals = (<<0, 0>> :> 0) @@ (<<0, 1>> :> 1) @@ (<<1, 0>> :> 2)
                                 @@ (<<1, 1>> :> 3) @@ (<<2, 0>> :> 4) @@ (<<2, 1>> :> 5)

C23_Witness ==
    /\ yShape = PowersAt1.y /\ xShape = PowersAt1.x /\ J = PowersAt1.J
    /\ fault.kind = "none"
    /\ Completed
    /\ Len(calls) = 6
    /\ returned.vals[<<2, 1>>] = 5

----------------------------------------------------------------------------
C25_ComponentSeedSelectsLeadingIndex ==
    mode = "cells" =>
        /\ Len(calls) <= 2
        /\ \A k \in 1 .. Len(calls) :
              /\ calls[k].shape = yShape
              /\ \A c \in Coords(yShape) :
                    calls[k].vals[c] = (IF c[1] = k - 1 THEN 1 ELSE 0)
        /\ pc = "cell_backward" =>
              SeededAt(v) = {c \in Coords(yShape) : c[1] = pos - 1}

C25_Witness ==
    /\ mode = "cells"
    /\ yShape = <<2, 3>>
    /\ xShape = <<3, 4>>
    /\ pc = "done"
    /\ Len(calls) = 2
    /\ SeededAt(calls[2]) = {<<1, 0>>, <<1, 1>>, <<1, 2>>}
    /\ xgrad.vals[<<2, 3>>] = 22

\* C26: in the cells as written no backward call is made on an output
\* whose graph an earlier call released: a call that is followed by
\* another on the same output retains the graph, and the engine never
\* refuses a call.
C26_NoCallOnReleasedGraph ==
    /\ err /= "OracleExhausted"
    /\ pc /= "failed"
    /\ pc \in {"backward", "waiting", "cell_backward"} => graph = "retained"
    /\ mode = "cells" /\ Len(answers) < Len(todo) => graph = "retained"
    /\ mode = "jacobian" => graph = "retained"

C26_Witness ==
    /\ mode = "cells"
    /\ pc = "done"
    /\ Len(answers) = 2
    /\ graph = "released"

----------------------------------------------------------------------------
\* C24: a Path object has no attribute ls before fastai is imported and has
\* it afterwards, and the attributes the import adds, taken as the
\* difference of the two listings, are load, load_array, ls, read,
\* readlines, save, save_array and write, none of them native.
C24_ImportAddsLsAndSevenOthers ==
    /\ "fastcore.utils" \notin modules => "ls" \notin DOMAIN PathAttrs
    /\ report.cell = "native" /\ "fastcore.utils" \notin modules => ~report.has_ls
    /\ report.cell = "fastai" => report.has_ls
    /\ "dir_fastai" \in ns => "ls" \in dir_fastai
    /\ {"dir_native", "dir_fastai"} \subseteq ns /\ "ls" \notin dir_native =>
          Difference(dir_fastai, dir_native) = AddedAttrs
    /\ report.cell = "diff" /\ report.error = NoError =>
          /\ report.added \cap NativeAttrs = {}
          /\ "ls" \notin dir_native =>
                report.added = {"load", "load_array", "ls", "read", "readlines",
                                "save", "save_array", "write"}

\* The cells in the order of the notebook: the native listing, the import,
\* the difference.
C24_Witness ==
    /\ report.cell = "diff"
    /\ report.error = NoError
    /\ "ls" \notin dir_native
    /\ "home" \in dir_native
    /\ Cardinality(report.added) = 8
    /\ patchedBy = "fastai2.vision.all"

\* C28: deleting the name Path does not undo the patch of the class: once
\* an import has added ls to Path it stays, every later binding of Path has
\* it, and the cell with the minimal imports reports Path.ls as defined by
\* fastcore.utils whichever import applied the patch.
C28_PatchOutlivesTheName ==
    /\ [][("ls" \in DOMAIN PathAttrs) => ("ls" \in DOMAIN PathAttrs')]_vars
    /\ []("fastcore.utils" \in modules => "ls" \in DOMAIN PathAttrs)
    /\ [](report.cell = "minimal" /\ report.error /= "NameError" =>
             /\ report.error = NoError
             /\ report.path_module = "pathlib"
             /\ report.ls_module = "fastcore.utils"
             /\ "Path" \in ns)

\* The minimal imports after fastai was imported and the name deleted, as
\* in the notebook: fastcore.utils was loaded before the cell ran.
C28_Witness ==
    /\ report.cell = "minimal"
    /\ report.error = NoError
    /\ report.ls_module = "fastcore.utils"
    /\ patchedBy = "fastai2.vision.all"

====
